---- MODULE Spec2Model ----
(***************************************************************************)
(* Model of custom_components/marstek_modbus/config_flow.py:               *)
(*   - MarstekConfigFlow.async_step_user   (setup step)                    *)
(*   - async_test_modbus_connection        (connection probe)              *)
(*   - MarstekOptionsFlow.async_step_init  (options step)                  *)
(* The pymodbus client, the resolver, the host's entry store and the       *)
(* coordinator are the environment: every outcome they can produce is an   *)
(* input drawn with \E.                                                    *)
(***************************************************************************)
EXTENDS Integers, Sequences, FiniteSets, TLC

VARIABLES entries, calls, config, coordinator, options_flow

vars == <<entries, calls, config, coordinator, options_flow>>

setup_vars == <<entries, calls>>

options_vars == <<config, coordinator, options_flow>>

(***************************************************************************)
(* Bounds of the model.                                                    *)
(***************************************************************************)
\* A new call is started only while fewer than MaxEntries entries exist.
MaxEntries == 2

\* The setup flows that may run concurrently.
Flows == {"f1", "f2"}

\* A caller of the probe other than the setup step.
Direct == "direct"

Callers == Flows \cup {Direct}

Hosts == {"venus.local", "no.such.host"}

Ports == {0, 502, 65536}

UnitIds == {0, 1, 2, 256}

(***************************************************************************)
(* Python values.                                                          *)
(***************************************************************************)
\* The probe's return value None (success).
None == "None"

\* getattr(result, 'exception_code', None) when the attribute is missing.
NoCode == -1

(***************************************************************************)
(* str(err).lower() and the substring test, on messages as word sequences. *)
(***************************************************************************)
LowerWord(w) ==
    CASE w = "Connection" -> "connection"
      [] w = "Permission" -> "permission"
      [] w = "Unable" -> "unable"
      [] w = "No" -> "no"
      [] w = "Name" -> "name"
      [] w = "[Errno" -> "[errno"
      [] w = "[WinError" -> "[winerror"
      [] OTHER -> w

Lower(msg) == [i \in 1..Len(msg) |-> LowerWord(msg[i])]

\* needle in msg
Contains(needle, msg) ==
    \E i \in 1..(Len(msg) - Len(needle) + 1) :
        SubSeq(msg, i, i + Len(needle) - 1) = needle

(***************************************************************************)
(* Environment: what the resolver and the pymodbus client can do.          *)
(***************************************************************************)
\* socket.gethostbyname(host): a name that resolves may also fail to
\* resolve at the moment of the call.
ResolveEvents(host) ==
    IF host = "venus.local" THEN {"ok", "gaierror"} ELSE {"gaierror"}

Unresolvable(host) == "ok" \notin ResolveEvents(host)

\* ModbusTcpClient(host=..., port=..., timeout=3)
CtorEvents == {"ok", "raise"}

Causes == {"timeout", "refused", "permission", "other"}

\* OSErrors client.connect() can raise, with the cause each one reports.
OSErrors ==
    { [cause |-> "timeout", msg |-> <<"timed", "out">>],
      [cause |-> "timeout", msg |-> <<"[Errno", "110]", "Connection", "timed", "out">>],
      [cause |-> "timeout", msg |-> <<"Connection", "timeout">>],
      [cause |-> "refused", msg |-> <<"[Errno", "111]", "Connection", "refused">>],
      [cause |-> "permission", msg |-> <<"[Errno", "13]", "Permission", "denied">>],
      [cause |-> "refused",
       msg |-> <<"[WinError", "10061]", "No", "connection", "could", "be", "made",
                 "because", "the", "target", "machine", "actively", "refused", "it">>],
      [cause |-> "other", msg |-> <<"[Errno", "113]", "No", "route", "to", "host">>],
      [cause |-> "other", msg |-> <<"[Errno", "-2]", "Name", "or", "service", "not", "known">>] }

NoMsg == << >>

ConnectFailures ==
    { [kind |-> "false", cause |-> c, msg |-> NoMsg] : c \in Causes }
    \cup { [kind |-> "oserror", cause |-> e.cause, msg |-> e.msg] : e \in OSErrors }
    \cup { [kind |-> "exception", cause |-> "other", msg |-> NoMsg] }

\* client.connect(): a name that never resolves cannot be connected to.
ConnectEvents(host) ==
    IF Unresolvable(host) THEN ConnectFailures
    ELSE ConnectFailures \cup { [kind |-> "true", cause |-> "-", msg |-> NoMsg] }

ExceptionCodes == {0, 1, 2, 3, 4, 5, NoCode}

\* What awaiting the single register read can produce.
ReadEvents ==
    { [kind |-> k, code |-> NoCode] :
        k \in {"data", "no_isError", "none", "timeout", "exception", "oserror"} }
    \cup { [kind |-> "error", code |-> c] : c \in ExceptionCodes }

NoRead == [kind |-> "-", code |-> NoCode]

\* client.close()
CloseEvents == {"ok", "raise"}

(***************************************************************************)
(* async_test_modbus_connection                                            *)
(***************************************************************************)
\* The handler of "except OSError as err", on err_msg = str(err).lower().
ClassifyOSError(err_msg) ==
    IF Contains(<<"permission", "denied">>, err_msg) THEN "permission_denied"
    ELSE IF Contains(<<"connection", "refused">>, err_msg) THEN "connection_refused"
    ELSE IF Contains(<<"timed", "out">>, err_msg) \/ Contains(<<"timeout">>, err_msg)
         THEN "timed_out"
    ELSE "cannot_connect"

\* The mutant of ClassifyRead: exception code 4 no longer counts as a reply.
ClassifyReadDropsCode4(ev) ==
    CASE ev.kind = "none" -> "unit_id_no_response"
      [] ev.kind = "error" ->
            IF ev.code \in {1, 2, 3} THEN None ELSE "unit_id_no_response"
      [] ev.kind \in {"data", "no_isError"} -> None
      [] ev.kind = "timeout" -> "unit_id_no_response"
      [] OTHER -> "unit_id_no_response"

\* The inner try block after the awaited read: the result's classification,
\* "except asyncio.TimeoutError" and "except Exception".
ClassifyRead(ev) ==
    CASE ev.kind = "none" -> "unit_id_no_response"
      [] ev.kind = "error" ->
            IF ev.code \in {1, 2, 3, 4} THEN None ELSE "unit_id_no_response"
      [] ev.kind \in {"data", "no_isError"} -> None
      [] ev.kind = "timeout" -> "unit_id_no_response"
      [] OTHER -> "unit_id_no_response"

\* The path by which the probe left the read, for the record of the call.
ReadExit(ev) ==
    CASE ev.kind \in {"data", "no_isError"} -> "read_data"
      [] ev.kind = "error" -> "read_error_response"
      [] ev.kind = "none" -> "read_none"
      [] ev.kind = "timeout" -> "read_timeout"
      [] OTHER -> "read_exception"

\* The mutant of ProbeFinally: the close is skipped when the probe is left
\* by an exception that no handler caught.
ProbeFinallySkipsOnRaise(r, cl) ==
    IF r.raised THEN [r EXCEPT !.pc = "done"]
    ELSE [r EXCEPT !.pc = "done", !.closes = @ + 1]

\* finally: try: client.close() except Exception: pass
\* (an exception of close() is swallowed: cl changes nothing)
ProbeFinally(r, cl) ==
    [r EXCEPT !.pc = "done", !.closes = @ + 1]

\* A call that has not started.
Idle ==
    [pc |-> "idle", kind |-> "-", host |-> "-", port |-> 0, unit_id |-> 0,
     ctor |-> "-", connects |-> 0, reads |-> 0, closes |-> 0,
     cause |-> "-", rd |-> NoRead, exit |-> "-",
     result |-> "-", raised |-> FALSE, flow_result |-> "-", errors |-> "-"]

NewCall(kind, host, port, unit_id) ==
    [Idle EXCEPT !.kind = kind, !.host = host, !.port = port, !.unit_id = unit_id]

\* The probe from its entry to the awaited read, or to its return when the
\* client cannot be built or connected.  ce, ke, cl: what the constructor,
\* connect() and close() do.
ProbeEnter(r, ce, ke, cl) ==
    IF ce = "raise"
    THEN \* the constructor is outside the try block
         [r EXCEPT !.pc = "done", !.ctor = "raise", !.exit = "ctor_raised",
                   !.raised = TRUE]
    ELSE LET c == [r EXCEPT !.ctor = "ok", !.connects = 1, !.cause = ke.cause]
         IN CASE ke.kind = "true" -> [c EXCEPT !.pc = "reading"]
              [] ke.kind = "false" ->
                    \* raise ConnectionError("Unable to connect")
                    ProbeFinally(
                        [c EXCEPT !.exit = "connect_false",
                                  !.result = ClassifyOSError(
                                      Lower(<<"Unable", "to", "connect">>))], cl)
              [] ke.kind = "oserror" ->
                    ProbeFinally(
                        [c EXCEPT !.exit = "connect_oserror",
                                  !.result = ClassifyOSError(Lower(ke.msg))], cl)
              [] OTHER ->
                    ProbeFinally(
                        [c EXCEPT !.exit = "connect_exception",
                                  !.result = "cannot_connect"], cl)

\* The probe from the awaited read to its return.
ProbeAfterRead(r, ev, cl) ==
    ProbeFinally(
        [r EXCEPT !.reads = @ + 1, !.rd = ev, !.exit = ReadExit(ev),
                  !.result = ClassifyRead(ev)], cl)

\* asyncio.CancelledError delivered at the await: no handler catches it.
ProbeCancelled(r, cl) ==
    ProbeFinally([r EXCEPT !.exit = "cancelled", !.raised = TRUE], cl)

(***************************************************************************)
(* MarstekConfigFlow.async_step_user                                       *)
(***************************************************************************)
\* not errors["base"]
Falsy(v) == v \in {None, ""}

\* The mutant of AlreadyConfigured: only the first entry is compared.
AlreadyConfiguredFirstOnly(es, host, unit_id) ==
    es # << >> /\ Head(es).host = host /\ Head(es).unit_id = unit_id

RECURSIVE AlreadyConfigured(_, _, _)
\* for entry in self._async_current_entries(): if host and unit_id match
AlreadyConfigured(es, host, unit_id) ==
    IF es = << >> THEN FALSE
    ELSE IF Head(es).host = host /\ Head(es).unit_id = unit_id THEN TRUE
    ELSE AlreadyConfigured(Tail(es), host, unit_id)

\* The step after the probe has returned (or raised).
AfterProbe(r) ==
    IF r.pc # "done" THEN r
    ELSE IF r.raised THEN [r EXCEPT !.flow_result = "raised"]
    ELSE IF Falsy(r.result) THEN [r EXCEPT !.flow_result = "create_entry", !.errors = r.result]
    ELSE [r EXCEPT !.flow_result = "form", !.errors = r.result]

\* The step with user_input given, from the validation to the awaited read
\* of the probe or to the step's result.  re: what gethostbyname does.
AsyncStepUser(r, es, re, ce, ke, cl) ==
    IF ~(1 <= r.port /\ r.port <= 65535)
    THEN [r EXCEPT !.pc = "done", !.flow_result = "form", !.errors = "invalid_port"]
    ELSE IF ~(1 <= r.unit_id /\ r.unit_id <= 255)
    THEN [r EXCEPT !.pc = "done", !.flow_result = "form", !.errors = "invalid_unit_id"]
    ELSE IF re # "ok"
    THEN [r EXCEPT !.pc = "done", !.flow_result = "form", !.errors = "invalid_host"]
    ELSE IF AlreadyConfigured(es, r.host, r.unit_id)
    THEN [r EXCEPT !.pc = "done", !.flow_result = "abort", !.errors = "already_configured"]
    ELSE AfterProbe(ProbeEnter(r, ce, ke, cl))

\* self.async_create_entry(title=title, data=data)
CreateEntry(es, r) ==
    IF r.flow_result = "create_entry"
    THEN Append(es, [host |-> r.host, port |-> r.port, unit_id |-> r.unit_id])
    ELSE es

(***************************************************************************)
(* The setup flows and the probe as a state machine.  A call is suspended  *)
(* at "translations" (await async_get_translations) and at "reading"       *)
(* (await asyncio.wait_for(_test_read(), timeout=5.0)); between two        *)
(* suspensions its code runs without interleaving.                         *)
(***************************************************************************)
CanStart(p) == calls[p].pc \in {"idle", "done"}

\* The host calls async_step_user(user_input): a new flow, or the form of a
\* flow submitted again.
Submit(p) ==
    /\ CanStart(p)
    /\ Len(entries) < MaxEntries
    /\ \E h \in Hosts, po \in Ports, u \in UnitIds :
          calls' = [calls EXCEPT ![p] =
                      [NewCall("flow", h, po, u) EXCEPT !.pc = "translations"]]
    /\ UNCHANGED <<entries, options_vars>>

\* The translations are loaded and the step runs to its next suspension.
StepUser(p) ==
    /\ calls[p].pc = "translations"
    /\ \E re \in ResolveEvents(calls[p].host), ce \in CtorEvents,
          ke \in ConnectEvents(calls[p].host), cl \in CloseEvents :
          LET r == AsyncStepUser(calls[p], entries, re, ce, ke, cl)
          IN /\ calls' = [calls EXCEPT ![p] = r]
             /\ entries' = CreateEntry(entries, r)
    /\ UNCHANGED options_vars

\* The awaited read ends; the probe returns and, in a flow, the step ends.
ReadDone(p) ==
    /\ calls[p].pc = "reading"
    /\ \E ev \in ReadEvents, cl \in CloseEvents :
          LET pr == ProbeAfterRead(calls[p], ev, cl)
              r == IF pr.kind = "flow" THEN AfterProbe(pr) ELSE pr
          IN /\ calls' = [calls EXCEPT ![p] = r]
             /\ entries' = CreateEntry(entries, r)
    /\ UNCHANGED options_vars

\* The host cancels the task while the probe is suspended at the read.
Cancel(p) ==
    /\ calls[p].pc = "reading"
    /\ \E cl \in CloseEvents :
          LET pr == ProbeCancelled(calls[p], cl)
              r == IF pr.kind = "flow" THEN AfterProbe(pr) ELSE pr
          IN calls' = [calls EXCEPT ![p] = r]
    /\ UNCHANGED <<entries, options_vars>>

\* The probe called by another caller than the setup step, with any
\* arguments.
DirectProbe ==
    /\ CanStart(Direct)
    /\ \E h \in Hosts, po \in Ports, u \in UnitIds, ce \in CtorEvents,
          cl \in CloseEvents :
          \E ke \in ConnectEvents(h) :
             calls' = [calls EXCEPT ![Direct] =
                         ProbeEnter(NewCall("direct", h, po, u), ce, ke, cl)]
    /\ UNCHANGED <<entries, options_vars>>

(***************************************************************************)
(* MarstekOptionsFlow.async_step_init                                      *)
(***************************************************************************)
CONF_UNIT_ID == "unit_id"

RateKeys == {"high", "medium", "low", "very_low"}

OptionKeys == RateKeys \cup {CONF_UNIT_ID}

\* const.py
DEFAULT_UNIT_ID == 1

\* const.py
DEFAULT_SCAN_INTERVALS ==
    [key \in RateKeys |->
        CASE key = "high" -> 10
          [] key = "medium" -> 30
          [] key = "low" -> 60
          [] OTHER -> 300]

\* A dict without keys.
EmptyDict == [k \in {} |-> 0]

\* d.get(key, default)
Get(d, key, default) == IF key \in DOMAIN d THEN d[key] ELSE default

\* What a user can submit for a rate and for the unit id.
RateInputs == {0, 45, 5000}

UnitInputs == {0, 7, 300}

\* The submissions: any subset of the fields, each with one of its values.
RawInputs ==
    UNION { { f \in [S -> RateInputs \cup UnitInputs] :
                \A k \in S : f[k] \in (IF k = CONF_UNIT_ID THEN UnitInputs ELSE RateInputs) }
            : S \in SUBSET OptionKeys }

\* defaults = {key: config.options.get(key, config.data.get(key, DEFAULT...))}
Defaults(cfg) ==
    [key \in RateKeys |->
        Get(cfg.options, key, Get(cfg.data, key, DEFAULT_SCAN_INTERVALS[key]))]

\* default_unit_id
DefaultUnitId(cfg) ==
    Get(cfg.options, CONF_UNIT_ID, Get(cfg.data, CONF_UNIT_ID, DEFAULT_UNIT_ID))

\* The mutant of Clamp: only the upper end is enforced.
ClampUpperOnly(lo, hi, v) == IF v > hi THEN hi ELSE v

\* vol.Clamp(min=lo, max=hi)
Clamp(lo, hi, v) == IF v < lo THEN lo ELSE IF v > hi THEN hi ELSE v

\* The validator of each field of the schema.
Validator(key, v) ==
    IF key = CONF_UNIT_ID THEN Clamp(1, 255, v) ELSE Clamp(1, 3600, v)

\* The schema of the form: each field's default.
Schema(cfg) ==
    [key \in OptionKeys |->
        IF key = CONF_UNIT_ID THEN DefaultUnitId(cfg) ELSE Defaults(cfg)[key]]

\* The schema applied to a submission: a field left out takes its default,
\* and every field passes through its validator.
ApplySchema(schema, raw) ==
    [key \in OptionKeys |-> Validator(key, Get(raw, key, schema[key]))]

\* coordinator._update_scan_intervals(user_input)
UpdateScanIntervals(c, user_input) ==
    [c EXCEPT !.intervals = [key \in RateKeys |-> user_input[key]]]

\* The mutant of UpdateUnitId: the unit id of the form's default is used.
UpdateUnitIdFromDefault(c, user_input, default_unit_id) ==
    IF default_unit_id # c.unit_id THEN [c EXCEPT !.unit_id = default_unit_id] ELSE c

\* new_unit_id = user_input.get(CONF_UNIT_ID, default_unit_id); the client's
\* unit id is set when it differs.
UpdateUnitId(c, user_input, default_unit_id) ==
    LET new_unit_id == Get(user_input, CONF_UNIT_ID, default_unit_id)
    IN IF new_unit_id # c.unit_id THEN [c EXCEPT !.unit_id = new_unit_id] ELSE c

\* The coordinator after "if user_input is not None:" of the step.
NotifyCoordinator(c, user_input, default_unit_id) ==
    IF c.present
    THEN UpdateUnitId(UpdateScanIntervals(c, user_input), user_input, default_unit_id)
    ELSE c

NoCoordinator ==
    [present |-> FALSE, unit_id |-> 0, intervals |-> [key \in RateKeys |-> 0]]

\* The coordinator the integration builds for a loaded entry.
LoadedCoordinator(cfg) ==
    [present |-> TRUE, unit_id |-> DefaultUnitId(cfg), intervals |-> Defaults(cfg)]

NoOptionsFlow ==
    [pc |-> "idle", schema |-> EmptyDict, submitted |-> EmptyDict,
     scan_updates |-> 0]

\* The step called without user_input: the form with its schema.
ShowForm ==
    /\ options_flow.pc \in {"idle", "done"}
    /\ options_flow' = [NoOptionsFlow EXCEPT !.pc = "form", !.schema = Schema(config)]
    /\ UNCHANGED <<config, coordinator, setup_vars>>

\* The form is submitted: the host applies the form's schema and calls the
\* step with the result, which the step hands to the coordinator and stores.
SubmitOptions ==
    /\ options_flow.pc = "form"
    /\ \E raw \in RawInputs :
          LET user_input == ApplySchema(options_flow.schema, raw)
          IN /\ coordinator' =
                   NotifyCoordinator(coordinator, user_input, DefaultUnitId(config))
             /\ config' = [config EXCEPT !.options = user_input]
             /\ options_flow' =
                   [options_flow EXCEPT
                       !.pc = "done", !.schema = EmptyDict, !.submitted = raw,
                       !.scan_updates = IF coordinator.present THEN 1 ELSE 0]
    /\ UNCHANGED setup_vars

\* The entry is loaded: hass.data[DOMAIN][entry_id] holds its coordinator.
LoadEntry ==
    /\ ~coordinator.present
    /\ coordinator' = LoadedCoordinator(config)
    /\ UNCHANGED <<config, options_flow, setup_vars>>

\* The entry is unloaded.
UnloadEntry ==
    /\ coordinator.present
    /\ coordinator' = NoCoordinator
    /\ UNCHANGED <<config, options_flow, setup_vars>>

(***************************************************************************)
(* Specifications.                                                         *)
(***************************************************************************)
\* The data of an entry the setup step created, or of one without unit id.
EntryData == {EmptyDict, [k \in {CONF_UNIT_ID} |-> 2]}

Init ==
    /\ entries = << >>
    /\ calls = [p \in Callers |-> Idle]
    /\ config = [data |-> EmptyDict, options |-> EmptyDict]
    /\ coordinator = NoCoordinator
    /\ options_flow = NoOptionsFlow

Next ==
    \E p \in Flows :
        \/ Submit(p)
        \/ StepUser(p)
        \/ ReadDone(p)
        \/ Cancel(p)

\* The setup flows, each with the probe it awaits.
Spec == Init /\ [][Next]_vars

ProbeNext ==
    \/ DirectProbe
    \/ ReadDone(Direct)
    \/ Cancel(Direct)

\* The probe called on its own.
ProbeSpec == Init /\ [][ProbeNext]_vars

OptionsInit ==
    /\ entries = << >>
    /\ calls = [p \in Callers |-> Idle]
    /\ config \in [data : EntryData, options : {EmptyDict}]
    /\ coordinator = NoCoordinator
    /\ options_flow = NoOptionsFlow

OptionsNext ==
    \/ ShowForm
    \/ SubmitOptions
    \/ LoadEntry
    \/ UnloadEntry

\* The options flow of one entry.
OptionsSpec == OptionsInit /\ [][OptionsNext]_vars

(***************************************************************************)
(* The claims.                                                             *)
(***************************************************************************)
InRange(lo, hi, v) == lo <= v /\ v <= hi

\* The arguments of call p are in the ranges the setup step enforces.
ValidArguments(p) ==
    InRange(1, 65535, calls[p].port) /\ InRange(1, 255, calls[p].unit_id)

\* The probe has been entered by call p.
ProbeCalled(p) ==
    \/ calls[p].kind = "direct" /\ calls[p].pc # "idle"
    \/ calls[p].ctor # "-"

ReadExits ==
    {"read_data", "read_error_response", "read_none", "read_timeout", "read_exception"}

ConnectExits == {"connect_false", "connect_oserror", "connect_exception"}

\* C1: however the probe ends (a read that succeeds, a connect that fails,
\* an error response, a read timeout, an exception of the read, or a
\* cancellation while the read is awaited), close() has been called exactly
\* once when control is back at the caller, and never before.
C1_ClosedExactlyOnce ==
    \A p \in Callers :
        /\ calls[p].pc = "done"
              /\ calls[p].exit \in ReadExits \cup ConnectExits \cup {"cancelled"}
           => calls[p].closes = 1
        /\ calls[p].pc = "reading" => calls[p].closes = 0

C1_Witness ==
    /\ calls[Direct].pc = "done"
    /\ calls[Direct].exit = "cancelled"
    /\ calls[Direct].raised
    /\ calls[Direct].closes = 1

ProbeOutcomes ==
    {None, "timed_out", "connection_refused", "permission_denied", "cannot_connect",
     "unit_id_no_response", "invalid_host", "invalid_parameter"}

\* C2: the probe never raises to its caller: whatever the constructor,
\* connect(), the read or close() do, the call returns one of the outcomes
\* (stated here for arguments in range and calls that are not cancelled).
C2_NeverRaises ==
    \A p \in Callers :
        /\ calls[p].pc = "done" /\ ProbeCalled(p)
        /\ ValidArguments(p) /\ calls[p].exit # "cancelled"
        => ~calls[p].raised /\ calls[p].result \in ProbeOutcomes

\* C3: a probe called with a port outside [1,65535] or a unit id outside
\* [1,255] returns invalid_parameter at once: no client is built and no
\* connect is attempted.
C3_InvalidParameterWithoutSocket ==
    \A p \in Callers :
        ProbeCalled(p)
           /\ (~InRange(1, 65535, calls[p].port) \/ ~InRange(1, 255, calls[p].unit_id))
        => /\ calls[p].pc = "done"
           /\ calls[p].result = "invalid_parameter"
           /\ calls[p].ctor = "-"
           /\ calls[p].connects = 0

\* Some entry of es has this host and unit id, wherever it stands in es.
Registered(es, host, unit_id) ==
    \E i \in DOMAIN es : es[i].host = host /\ es[i].unit_id = unit_id

\* Flow p runs its step from the loaded translations on.
Steps(p) == calls[p].pc = "translations" /\ calls'[p].pc # "translations"

C5_UnresolvableHostIsNotConnected ==
    \A p \in Callers :
        calls[p].kind # "-" /\ ValidArguments(p) /\ Unresolvable(calls[p].host)
        => /\ calls[p].connects = 0
           /\ calls[p].pc = "done" =>
                 \/ calls[p].result = "invalid_host"
                 \/ calls[p].errors = "invalid_host"

\* C6: once connect() has succeeded the read alone decides the outcome:
\* data, or an exception response with code 1..4, is success; any other
\* exception response (also one without code), no response, a timeout and
\* any exception of the read are unit_id_no_response.
C6_ReadDecidesOutcome ==
    \A p \in Callers :
        calls[p].pc = "done" /\ calls[p].rd.kind # "-"
        => /\ ~calls[p].raised
           /\ calls[p].reads = 1
           /\ calls[p].result =
                 IF \/ calls[p].rd.kind \in {"data", "no_isError"}
                    \/ calls[p].rd.kind = "error" /\ calls[p].rd.code \in 1..4
                 THEN None
                 ELSE "unit_id_no_response"

C6_Witness ==
    /\ calls[Direct].pc = "done"
    /\ calls[Direct].rd = [kind |-> "error", code |-> 4]
    /\ calls[Direct].result = None

\* The outcome that names a cause.
CauseOutcome(cause) ==
    CASE cause = "timeout" -> "timed_out"
      [] cause = "refused" -> "connection_refused"
      [] cause = "permission" -> "permission_denied"
      [] OTHER -> "cannot_connect"

\* C7: when the connect fails the outcome names the cause, both when
\* connect() raises an OSError and when it returns false (stated here for
\* arguments in range).
C7_ConnectFailureNamesCause ==
    \A p \in Callers :
        /\ calls[p].pc = "done" /\ ValidArguments(p)
        /\ calls[p].exit \in {"connect_false", "connect_oserror"}
        => calls[p].result = CauseOutcome(calls[p].cause)

\* The options step stores a submission.
Stores == options_flow.pc = "form" /\ options_flow'.pc = "done"

\* The value of a field in the profile of an entry: options, then data,
\* then the default.
Profile(cfg, key) ==
    IF key \in DOMAIN cfg.options THEN cfg.options[key]
    ELSE IF key \in DOMAIN cfg.data THEN cfg.data[key]
    ELSE IF key = CONF_UNIT_ID THEN DEFAULT_UNIT_ID
    ELSE DEFAULT_SCAN_INTERVALS[key]

Top(key) == IF key = CONF_UNIT_ID THEN 255 ELSE 3600

\* C8: the stored profile holds, for each field, the submitted value
\* brought into [1,3600] (rates) or [1,255] (unit id) when the field was
\* submitted, and the value of the existing profile (options, then data,
\* then default) when it was left out.
C8_StoredProfile ==
    [][Stores =>
         \A key \in OptionKeys :
            Profile(config', key) =
               IF key \in DOMAIN options_flow'.submitted
               THEN LET v == options_flow'.submitted[key]
                    IN IF v < 1 THEN 1 ELSE IF v > Top(key) THEN Top(key) ELSE v
               ELSE Profile(config, key)]_vars

\* Rate 5000 stored as 3600, unit id 0 as 1, and a field left out that
\* keeps the 45 an earlier submission gave it.
C8_Witness ==
    /\ options_flow.pc = "done"
    /\ "high" \in DOMAIN options_flow.submitted
    /\ options_flow.submitted["high"] = 5000
    /\ config.options["high"] = 3600
    /\ CONF_UNIT_ID \in DOMAIN options_flow.submitted
    /\ options_flow.submitted[CONF_UNIT_ID] = 0
    /\ config.options[CONF_UNIT_ID] = 1
    /\ "medium" \notin DOMAIN options_flow.submitted
    /\ config.options["medium"] = 45

Changed == \E key \in OptionKeys : Profile(config', key) # Profile(config, key)

\* C9, as claimed: whenever a submission changes the unit id or a rate,
\* the coordinator is told the new unit id and the new intervals.
C9_ChangeAlwaysNotified ==
    [][Stores /\ Changed =>
         /\ options_flow'.scan_updates = 1
         /\ coordinator'.present
         /\ coordinator'.unit_id = Profile(config', CONF_UNIT_ID)
         /\ \A key \in RateKeys : coordinator'.intervals[key] = Profile(config', key)]_vars

\* C9, amended: a submission made while the entry has a coordinator tells
\* it the intervals and leaves its unit id equal to the stored one, whether
\* or not anything changed; without a coordinator nothing is notified.
C9_CoordinatorFollowsProfile ==
    [][Stores =>
         IF coordinator.present
         THEN /\ options_flow'.scan_updates = 1
              /\ coordinator'.present
              /\ coordinator'.unit_id = Profile(config', CONF_UNIT_ID)
              /\ \A key \in RateKeys :
                    coordinator'.intervals[key] = Profile(config', key)
         ELSE /\ options_flow'.scan_updates = 0
              /\ coordinator' = coordinator]_vars

C9_Witness ==
    /\ options_flow.pc = "done"
    /\ options_flow.scan_updates = 1
    /\ CONF_UNIT_ID \in DOMAIN options_flow.submitted
    /\ options_flow.submitted[CONF_UNIT_ID] = 7
    /\ coordinator.present
    /\ coordinator.unit_id = 7
    /\ coordinator.intervals["low"] = 3600

\* C10: no two entries have the same host and unit id, also when two flows
\* interleave at the awaited probe; and an entry is created only by a
\* submission whose probe returned success.
C10_NoDuplicateEntries ==
    /\ \A i, j \in DOMAIN entries :
          i < j => ~(entries[i].host = entries[j].host
                     /\ entries[i].unit_id = entries[j].unit_id)
    /\ \A p \in Flows :
          calls[p].flow_result = "create_entry"
          => calls[p].result = None /\ calls[p].exit \in ReadExits

====
